---- MODULE Spec2Model ----
(***************************************************************************)
(* Model of the dracory/blogstore post store and its versioning engine.    *)
(*                                                                         *)
(* State: the post table, the snapshot table of the version store, the     *)
(* in-memory *Post objects held by the caller, the wall clock and the      *)
(* result of the last call.  One action per exported operation.            *)
(*                                                                         *)
(* Timestamps are whole seconds: every timestamp the code writes or        *)
(* compares goes through carbon's ToDateTimeString ("Y-m-d H:i:s"), which  *)
(* drops the sub-second part and is order-preserving, so a timestamp is    *)
(* modelled by the number of the second it names.  A call reads the clock  *)
(* within one second.                                                      *)
(***************************************************************************)
EXTENDS Integers, Sequences, FiniteSets, TLC

\* ------------------------------------------------------------------ bounds
\* The clock runs over the seconds 0..MaxTime.
MaxTime == 1
\* At most MaxCalls calls (setter calls and store operations) are made.
MaxCalls == 4
\* At most MaxUpserts of them are post_upsert calls, the first calls of a run.
MaxUpserts == 2

\* ------------------------------------------------------- program constants
\* sb.MAX_DATETIME, the "not deleted" sentinel: later than every clock value.
MAX_DATETIME == 9999
\* An unset (empty string) timestamp option of PostQueryOptions.
NoTime == -1

POST_STATUS_DRAFT == "draft"
POST_STATUS_TRASH == "trash"
VERSIONING_TYPE_POST == "post"

COLUMN_ID == "id"
COLUMN_STATUS == "status"
COLUMN_TITLE == "title"
COLUMN_CONTENT == "content"
COLUMN_METAS == "metas"
COLUMN_CREATED_AT == "created_at"
COLUMN_UPDATED_AT == "updated_at"
COLUMN_SOFT_DELETED_AT == "soft_deleted_at"

\* The columns of the post table that the model keeps.
Columns ==
    {COLUMN_ID, COLUMN_STATUS, COLUMN_TITLE, COLUMN_CONTENT, COLUMN_METAS,
     COLUMN_CREATED_AT, COLUMN_UPDATED_AT, COLUMN_SOFT_DELETED_AT}

\* ------------------------------------------------------------ input domains
\* Post ids a caller can use; "" is the blank id.
IDs == {"", "p1"}
\* Titles a caller can set; "" is the title NewPost sets.
Titles == {"", "a"}
\* The *Post variables the caller holds.  (PostSoftDeleteByID works on an
\* object of its own, read from the table.)
Handles == {"h1"}
\* Outcome of the backend for one call: no failure, or the named statement
\* fails (SELECT on the post table, INSERT/UPDATE/DELETE on the post table,
\* the version store's list query, the version store's insert).
Faults == {"none", "select", "exec", "vlist", "vcreate"}
\* The failures that can reach an operation that writes a post and tracks it,
\* one that only writes the post table, and one that only reads it.
WriteFaults == Faults \ {"select"}
ExecFaults == {"none", "exec"}
SelectFaults == {"none", "select"}

\* The ids of the posts stored before the first call of a run that starts
\* from a filled table.
StoredIDs == {"p1", "p2", "p3"}
\* What such a row holds besides its id and created_at: a visible draft, a
\* visible trashed post, a soft-deleted draft.
RowKinds ==
    {[status |-> POST_STATUS_DRAFT, title |-> "ab", content |-> "", soft_deleted_at |-> MAX_DATETIME],
     [status |-> POST_STATUS_TRASH, title |-> "B", content |-> "", soft_deleted_at |-> MAX_DATETIME],
     [status |-> POST_STATUS_DRAFT, title |-> "", content |-> "a", soft_deleted_at |-> 0]}

ERR_NIL == "nil"
ERR_DB == "persistence error"
ERR_VERSION_DB == "version store: persistence error"
ERR_DUPLICATE == "UNIQUE constraint failed"
ERR_POST_NIL == "post is nil"
ERR_ORDER_NIL == "order is nil"
ERR_ID_EMPTY == "post id is empty"
ERR_VSTORE_NIL == "blogstore: versioning store is nil"
ERR_ENTITY_TYPE_EMPTY == "blogstore: entityType is empty"
ERR_ENTITY_ID_EMPTY == "blogstore: entityID is empty"
ERR_PARSE == "strconv.ParseInt: invalid syntax"
ERR_JSON == "unexpected end of JSON input"
ERR_TITLE_REQUIRED == "title is required for new posts"
ERR_FEATURED == "featured field must be 'yes' or 'no', not boolean true/false"

VARIABLES
    store,      \* the store's configuration: versioningEnabled, versioningStore
    table,      \* the post table: stored id -> row
    versions,   \* the snapshot table, in insertion order
    posts,      \* the caller's *Post objects: handle -> [data, dirty]
    now,        \* the wall clock, in seconds
    calls,      \* number of calls made so far
    last        \* the last call and what it returned

vars == <<store, table, versions, posts, now, calls, last>>

\* ------------------------------------------------------------ entity model
\* dataobject.Set as used by every Post setter: stores the value and marks
\* the column dirty, whether or not the value changed.
Set(post, column, value) ==
    [data |-> [post.data EXCEPT ![column] = value], dirty |-> post.dirty \cup {column}]

\* dataobject.MarkAsNotDirty: forgets every dirty column.
MarkAsNotDirty(post) ==
    [post EXCEPT !.dirty = {}]

\* NewPost: default values, every column set through its setter (so dirty).
NewPost(id, t) ==
    [data |-> [id |-> id, status |-> POST_STATUS_DRAFT, title |-> "", content |-> "", metas |-> "{}",
               created_at |-> t, updated_at |-> t, soft_deleted_at |-> MAX_DATETIME],
     dirty |-> Columns]

\* NewPostFromExistingData: hydrates a row; nothing is dirty.
NewPostFromExistingData(row) ==
    [data |-> row, dirty |-> {}]

\* Post.MarshalToVersioning: the field map without the three timestamps.
MarshalToVersioning(post) ==
    [c \in Columns \ {COLUMN_CREATED_AT, COLUMN_UPDATED_AT, COLUMN_SOFT_DELETED_AT} |-> post.data[c]]

\* The content of a stored row, as MarshalToVersioning would give it.
RowContent(row) ==
    MarshalToVersioning(NewPostFromExistingData(row))

\* The metas maps a caller sets: none, or one key.
MetasMaps == {<<>>, [k \in {"custom_field1"} |-> "value1"]}

\* utils.ToJSON on a metas map.
ToJSON(metas) ==
    IF DOMAIN metas = {} THEN "{}" ELSE "{\"custom_field1\":\"value1\"}"

\* Post.Metas: the map parsed from the metas column, "" read as "{}".
Metas(post) ==
    IF post.data.metas \in {"", "{}"} THEN <<>> ELSE [k \in {"custom_field1"} |-> "value1"]

\* Post.SetMetas: the map is stored as JSON text in the metas column.
SetMetas(post, metas) ==
    Set(post, COLUMN_METAS, ToJSON(metas))

\* A content that is not the JSON text of a field map.
InvalidJSON ==
    [text |-> "{invalid json}"]

\* Mutant of UnmarshalFromVersioning: the id of the receiving post is kept.
UnmarshalFromVersioning_KeepsID(post, content, t) ==
    IF content = InvalidJSON THEN [err |-> ERR_JSON, post |-> post]
    ELSE [err |-> ERR_NIL,
          post |-> [data |-> [c \in Columns |->
                                 IF c = COLUMN_UPDATED_AT THEN t
                                 ELSE IF c \in DOMAIN content \ {COLUMN_ID, COLUMN_CREATED_AT, COLUMN_SOFT_DELETED_AT}
                                      THEN content[c] ELSE post.data[c]],
                    dirty |-> post.dirty \cup {COLUMN_UPDATED_AT} \cup
                              (DOMAIN content \ {COLUMN_ID, COLUMN_CREATED_AT, COLUMN_SOFT_DELETED_AT})]]

\* Post.UnmarshalFromVersioning: fails on a content that is no JSON object;
\* otherwise sets every field of the content but the timestamps on the post
\* and stamps updated_at with the current second.
UnmarshalFromVersioning(post, content, t) ==
    IF content = InvalidJSON THEN [err |-> ERR_JSON, post |-> post]
    ELSE [err |-> ERR_NIL,
          post |-> [data |-> [c \in Columns |->
                                 IF c = COLUMN_UPDATED_AT THEN t
                                 ELSE IF c \in DOMAIN content \ {COLUMN_CREATED_AT, COLUMN_SOFT_DELETED_AT}
                                      THEN content[c] ELSE post.data[c]],
                    dirty |-> post.dirty \cup {COLUMN_UPDATED_AT} \cup
                              (DOMAIN content \ {COLUMN_CREATED_AT, COLUMN_SOFT_DELETED_AT})]]

\* Placeholder content of a call that never computed a content.
NoContent ==
    [c \in Columns \ {COLUMN_CREATED_AT, COLUMN_UPDATED_AT, COLUMN_SOFT_DELETED_AT} |-> "-"]

\* ------------------------------------------------------------ query builder
\* PostQueryOptions{}: every filter unset.
DefaultOptions ==
    [ID |-> "", IDIn |-> {}, Status |-> "", StatusIn |-> {}, Search |-> "",
     CreatedAtLessThan |-> NoTime, CreatedAtGreaterThan |-> NoTime,
     Offset |-> 0, Limit |-> 0, SortOrder |-> "", OrderBy |-> "",
     CountOnly |-> FALSE, WithDeleted |-> FALSE]

\* The query options a caller passes: filters on id and status, filters on
\* created_at, paging and ordering, search.
FilterOptions ==
    {[DefaultOptions EXCEPT !.ID = i, !.IDIn = ii, !.Status = st, !.StatusIn = si, !.WithDeleted = wd] :
        i \in {"", "p1"}, ii \in {{}, {"p2"}},
        st \in {"", POST_STATUS_DRAFT}, si \in {{}, {POST_STATUS_TRASH}}, wd \in BOOLEAN}

TimeOptions ==
    {[DefaultOptions EXCEPT !.CreatedAtGreaterThan = g, !.CreatedAtLessThan = l, !.WithDeleted = wd] :
        g \in {NoTime} \cup 0..MaxTime, l \in {NoTime} \cup 1..(MaxTime + 1), wd \in BOOLEAN}

PageOptions ==
    {[DefaultOptions EXCEPT !.Limit = l, !.Offset = o, !.OrderBy = ob, !.SortOrder = so] :
        l \in {-1, 0, 2}, o \in {-1, 0, 1}, ob \in {"", COLUMN_CREATED_AT},
        so \in {"", "ASC", "desc"}}
    \cup {[DefaultOptions EXCEPT !.Limit = 1, !.Offset = o, !.OrderBy = COLUMN_TITLE,
                                 !.SortOrder = so, !.CountOnly = co] :
            o \in {0, 1}, so \in {"asc", "b"}, co \in BOOLEAN}

SearchOptions ==
    {[DefaultOptions EXCEPT !.Search = term, !.Status = st, !.WithDeleted = wd] :
        term \in {"a", "b", "ba", "_", "p1"}, st \in {"", POST_STATUS_DRAFT}, wd \in BOOLEAN}

QueryOptions ==
    FilterOptions \cup TimeOptions \cup PageOptions \cup SearchOptions

\* Outcome of the backend for one PostCount: see PostCountResult.
CountFaults == {"none", "render", "select", "empty", "unparsable"}

\* The characters of the texts the model uses (titles, contents, search
\* terms, sort orders).
Chars(s) ==
    CASE s = "" -> <<>>
      [] s = "ab" -> <<"a", "b">>
      [] s = "ba" -> <<"b", "a">>
      [] s = "asc" -> <<"a", "s", "c">>
      [] s = "ASC" -> <<"A", "S", "C">>
      [] s = "desc" -> <<"d", "e", "s", "c">>
      [] OTHER -> <<s>>

\* Case folding of one character, as ILIKE and strings.EqualFold do it.
Lower(c) ==
    CASE c = "A" -> "a"
      [] c = "B" -> "b"
      [] c = "C" -> "c"
      [] c = "S" -> "s"
      [] OTHER -> c

\* Mutant of EqualFold: the texts are compared with their case.
EqualFold_Exact(x, y) ==
    x = y

\* strings.EqualFold on two texts.
EqualFold(x, y) ==
    /\ Len(Chars(x)) = Len(Chars(y))
    /\ \A i \in 1..Len(Chars(x)) : Lower(Chars(x)[i]) = Lower(Chars(y)[i])

\* SQL (I)LIKE: text matches pattern, where "%" stands for any run of
\* characters, "_" for any one character and letters match without case.
RECURSIVE Like(_, _)
Like(text, pattern) ==
    IF pattern = <<>> THEN text = <<>>
    ELSE IF Head(pattern) = "%"
         THEN Like(text, Tail(pattern)) \/ (text # <<>> /\ Like(Tail(text), pattern))
    ELSE /\ text # <<>>
         /\ (Head(pattern) = "_" \/ Lower(Head(pattern)) = Lower(Head(text)))
         /\ Like(Tail(text), Tail(pattern))

\* goqu.C(column).ILike("%" + term + "%"); the term goes into the pattern
\* as it is.
ILike(value, term) ==
    Like(Chars(value), <<"%">> \o Chars(term) \o <<"%">>)

\* Mutant of Visible: the comparison is not strict.
Visible_NotStrict(row, t) ==
    row.soft_deleted_at >= t

\* The visibility predicate: soft_deleted_at strictly later than the clock.
Visible(row, t) ==
    row.soft_deleted_at > t

\* The search predicate of store.postQuery.
SearchMatches(row, term) ==
    \/ ILike(row.title, term)
    \/ ILike(row.content, term)
    \/ row.id = term

\* Mutant of postQuery: an ID replaces the IDIn predicate and a Status the
\* StatusIn predicate instead of being applied with it.
postQuery_ExactFirst(tbl, t, options) ==
    {id \in DOMAIN tbl :
        /\ (IF options.ID # "" THEN tbl[id].id = options.ID
            ELSE options.IDIn # {} => tbl[id].id \in options.IDIn)
        /\ (IF options.Status # "" THEN tbl[id].status = options.Status
            ELSE options.StatusIn # {} => tbl[id].status \in options.StatusIn)
        /\ (options.Search # "" => SearchMatches(tbl[id], options.Search))
        /\ (options.CreatedAtGreaterThan # NoTime => tbl[id].created_at > options.CreatedAtGreaterThan)
        /\ (options.CreatedAtLessThan # NoTime => tbl[id].created_at < options.CreatedAtLessThan)
        /\ (options.WithDeleted \/ Visible(tbl[id], t))}

\* store.postQuery, WHERE clause: the ids of the rows of tbl that satisfy
\* every predicate built from options, evaluated at second t.
postQuery(tbl, t, options) ==
    {id \in DOMAIN tbl :
        /\ (options.ID # "" => tbl[id].id = options.ID)
        /\ (options.IDIn # {} => tbl[id].id \in options.IDIn)
        /\ (options.Status # "" => tbl[id].status = options.Status)
        /\ (options.StatusIn # {} => tbl[id].status \in options.StatusIn)
        /\ (options.Search # "" => SearchMatches(tbl[id], options.Search))
        /\ (options.CreatedAtGreaterThan # NoTime => tbl[id].created_at > options.CreatedAtGreaterThan)
        /\ (options.CreatedAtLessThan # NoTime => tbl[id].created_at < options.CreatedAtLessThan)
        /\ (options.WithDeleted \/ Visible(tbl[id], t))}

\* All the orders in which the ids of S can be listed.
RECURSIVE Orderings(_)
Orderings(S) ==
    IF S = {} THEN {<<>>}
    ELSE UNION {{<<x>> \o p : p \in Orderings(S \ {x})} : x \in S}

\* Column values compared as the backend compares them: timestamps by
\* time, texts by their place in the collation.
SortKey(v) ==
    CASE v = "" -> 0
      [] v = "a" -> 1
      [] v = "ab" -> 2
      [] v = "B" -> 3
      [] v = "p1" -> 4
      [] v = "p2" -> 5
      [] v = "p3" -> 6
      [] OTHER -> 7

Before(tbl, column, x, y) ==
    IF column \in {COLUMN_CREATED_AT, COLUMN_UPDATED_AT, COLUMN_SOFT_DELETED_AT}
    THEN tbl[x][column] <= tbl[y][column]
    ELSE SortKey(tbl[x][column]) <= SortKey(tbl[y][column])

\* store.postQuery, ORDER BY clause: the orders the backend may return the
\* rows m in.  Without OrderBy (or for a count) no ORDER BY is emitted and
\* any order is possible; rows with equal keys come in any order.
Ordered(tbl, m, options) ==
    IF options.CountOnly \/ options.OrderBy = "" THEN Orderings(m)
    ELSE {p \in Orderings(m) :
            \A i \in 1..Len(p) : \A j \in i..Len(p) :
                IF EqualFold(IF options.SortOrder # "" THEN options.SortOrder ELSE "desc", "asc")
                THEN Before(tbl, options.OrderBy, p[i], p[j])
                ELSE Before(tbl, options.OrderBy, p[j], p[i])}

\* Mutant of HasLimit: a Limit of 0 is emitted as LIMIT 0.
HasLimit_Zero(options) ==
    (~options.CountOnly) /\ options.Limit >= 0

\* store.postQuery: a LIMIT clause is emitted.
HasLimit(options) ==
    (~options.CountOnly) /\ options.Limit > 0

\* store.postQuery: an OFFSET clause is emitted.
HasOffset(options) ==
    (~options.CountOnly) /\ options.Offset > 0

\* LIMIT and OFFSET applied to the ordered rows p.
Page(p, options) ==
    LET from == IF HasOffset(options) THEN options.Offset + 1 ELSE 1
        rest == SubSeq(p, from, Len(p))
    IN  IF HasLimit(options) /\ Len(rest) > options.Limit THEN SubSeq(rest, 1, options.Limit) ELSE rest

\* store.PostList: the lists (of ids, in the order returned) the SELECT may
\* return.
PostList(tbl, t, options) ==
    {Page(p, options) : p \in Ordered(tbl, postQuery(tbl, t, options), options)}

\* The ids listed in a result of PostList.
Range(list) ==
    {list[i] : i \in 1..Len(list)}

\* "if len(list) > 0 { return &list[0] }": the first element of a list, if any.
First(list) ==
    IF list = <<>> THEN <<>> ELSE <<list[1]>>

\* Mutant of CountOptions: the options are used as the caller gave them.
CountOptions_AsGiven(options) ==
    options

\* store.PostCount: "options.CountOnly = true".
CountOptions(options) ==
    [options EXCEPT !.CountOnly = TRUE]

\* The rows "SELECT COUNT(*) ... LIMIT 1" returns for the query built from
\* options: the aggregate is one row, which an OFFSET clause skips.
CountQuery(tbl, t, options) ==
    LET rows == <<Cardinality(postQuery(tbl, t, options))>>
    IN  First(IF HasOffset(options) THEN SubSeq(rows, options.Offset + 1, 1) ELSE rows)

\* store.PostCount when no statement fails: the count parsed from the first
\* row, -1 when there is no row.
PostCount(tbl, t, options) ==
    LET mapped == CountQuery(tbl, t, CountOptions(options))
    IN  IF Len(mapped) < 1 THEN -1 ELSE mapped[1]


\* Mutant of PostFindByID: the id is not checked before the query.
PostFindByID_Unguarded(tbl, t, id, fault) ==
    IF fault = "select" THEN {[err |-> ERR_DB, found |-> FALSE, id |-> id]}
    ELSE {IF list = <<>> THEN [err |-> ERR_NIL, found |-> FALSE, id |-> id]
                         ELSE [err |-> ERR_NIL, found |-> TRUE, id |-> list[1]] :
            list \in PostList(tbl, t, [DefaultOptions EXCEPT !.ID = id, !.Limit = 1])}

\* store.PostFindByID: the possible returns [err, found, id]; found tells
\* that the returned *Post is non-nil, and id names the row it was read from.
PostFindByID(tbl, t, id, fault) ==
    IF id = "" THEN {[err |-> ERR_ID_EMPTY, found |-> FALSE, id |-> id]}
    ELSE IF fault = "select" THEN {[err |-> ERR_DB, found |-> FALSE, id |-> id]}
    ELSE {IF list = <<>> THEN [err |-> ERR_NIL, found |-> FALSE, id |-> id]
                         ELSE [err |-> ERR_NIL, found |-> TRUE, id |-> list[1]] :
            list \in PostList(tbl, t, [DefaultOptions EXCEPT !.ID = id, !.Limit = 1])}

\* store.PostList with its failures: the possible returns [err, list].  The
\* SELECT fails when the backend fails; a query with OFFSET and no LIMIT is
\* run by some backends and rejected as a syntax error by others.
PostListResult(tbl, t, options, fault) ==
    IF fault = "select" THEN {[err |-> ERR_DB, list |-> <<>>]}
    ELSE {[err |-> ERR_NIL, list |-> list] : list \in PostList(tbl, t, options)}
         \cup (IF HasOffset(options) /\ ~HasLimit(options) THEN {[err |-> ERR_DB, list |-> <<>>]} ELSE {})

\* store.PostCount with its failures: the return [count, err].  fault names
\* the step that fails: rendering the statement, running it, a result
\* without rows, a count that does not parse.
PostCountResult(tbl, t, options, fault) ==
    IF fault = "render" THEN [count |-> -1, err |-> ERR_NIL]
    ELSE IF fault = "select" THEN [count |-> -1, err |-> ERR_DB]
    ELSE IF fault = "empty" \/ CountQuery(tbl, t, CountOptions(options)) = <<>> THEN [count |-> -1, err |-> ERR_NIL]
    ELSE IF fault = "unparsable" THEN [count |-> -1, err |-> ERR_PARSE]
    ELSE [count |-> PostCount(tbl, t, options), err |-> ERR_NIL]

\* post.CreatedAtCarbon().ToDateTimeString(): the second a valid created_at
\* names; an invalid one prints as the empty string.
CreatedAtCarbon(post) ==
    IF post.data.created_at < 0 THEN NoTime ELSE post.data.created_at

\* Mutant of PostFindPrevious: the comparison is "not later than".
PostFindPrevious_NotStrict(tbl, t, post, fault) ==
    {[err |-> r.err, list |-> First(r.list)] :
        r \in PostListResult(tbl, t, [DefaultOptions EXCEPT !.CreatedAtLessThan = CreatedAtCarbon(post) + 1,
                                                            !.Limit = 1], fault)}

\* store.PostFindPrevious and store.PostFindNext: the possible returns
\* [err, list], list holding the post returned, if any.
PostFindPrevious(tbl, t, post, fault) ==
    {[err |-> r.err, list |-> First(r.list)] :
        r \in PostListResult(tbl, t, [DefaultOptions EXCEPT !.CreatedAtLessThan = CreatedAtCarbon(post),
                                                            !.Limit = 1], fault)}

PostFindNext(tbl, t, post, fault) ==
    {[err |-> r.err, list |-> First(r.list)] :
        r \in PostListResult(tbl, t, [DefaultOptions EXCEPT !.CreatedAtGreaterThan = CreatedAtCarbon(post),
                                                            !.Limit = 1], fault)}

\* ------------------------------------------------------- versioning engine
\* Mutant of VersioningEnabled: versioning counts as enabled always.
VersioningEnabled_Always ==
    TRUE

\* store.VersioningEnabled.
VersioningEnabled ==
    store.versioningEnabled

\* The snapshot the lookup of versioningCreateIfChanged can return: the first
\* row of "WHERE entity_type, entity_id ORDER BY created_at DESC LIMIT 1", as
\* an index into vers, 0 when no row matches.  created_at has a resolution of
\* one second and is the only sort key, so among the snapshots of the latest
\* second the backend may return any.
LastVersioningList(vers, entityType, entityID) ==
    LET m == {i \in 1..Len(vers) : vers[i].entityType = entityType /\ vers[i].entityID = entityID}
    IN  IF m = {} THEN {0}
        ELSE {i \in m : \A j \in m : vers[j].createdAt <= vers[i].createdAt}

\* store.VersioningCreate with NewVersioning(): appends a snapshot stamped
\* with the current second; a no-op without a version store.
VersioningCreate(vers, t, entityType, entityID, content, fault) ==
    IF store.versioningStore = "nil" THEN [err |-> ERR_NIL, versions |-> vers]
    ELSE IF fault = "vcreate" THEN [err |-> ERR_VERSION_DB, versions |-> vers]
    ELSE [err |-> ERR_NIL,
          versions |-> Append(vers, [entityType |-> entityType, entityID |-> entityID,
                                     content |-> content, createdAt |-> t])]

\* store.versioningCreateIfChanged.  pick is the row the lookup returned.
\* tracked tells that the call got as far as comparing contents.
versioningCreateIfChanged(vers, t, entityType, entityID, content, fault, pick) ==
    IF ~VersioningEnabled THEN [err |-> ERR_NIL, versions |-> vers, tracked |-> FALSE]
    ELSE IF store.versioningStore = "nil" THEN [err |-> ERR_VSTORE_NIL, versions |-> vers, tracked |-> FALSE]
    ELSE IF entityType = "" THEN [err |-> ERR_ENTITY_TYPE_EMPTY, versions |-> vers, tracked |-> FALSE]
    ELSE IF entityID = "" THEN [err |-> ERR_ENTITY_ID_EMPTY, versions |-> vers, tracked |-> FALSE]
    ELSE IF fault = "vlist" THEN [err |-> ERR_VERSION_DB, versions |-> vers, tracked |-> FALSE]
    ELSE IF pick # 0 /\ vers[pick].content = content THEN [err |-> ERR_NIL, versions |-> vers, tracked |-> TRUE]
    ELSE LET c == VersioningCreate(vers, t, entityType, entityID, content, fault)
         IN  [err |-> c.err, versions |-> c.versions, tracked |-> TRUE]

\* Mutant of versioningContentFromEntity: updated_at is not skipped.
versioningContentFromEntity_WithUpdatedAt(post) ==
    [c \in Columns \ {COLUMN_CREATED_AT, COLUMN_SOFT_DELETED_AT} |-> post.data[c]]

\* store.versioningContentFromEntity: a *Post marshals itself.
versioningContentFromEntity(post) ==
    MarshalToVersioning(post)

\* store.versioningTrackEntity.
versioningTrackEntity(vers, t, entityType, entityID, post, fault, pick) ==
    IF ~VersioningEnabled THEN [err |-> ERR_NIL, versions |-> vers, tracked |-> FALSE, content |-> NoContent]
    ELSE LET content == versioningContentFromEntity(post)
             r == versioningCreateIfChanged(vers, t, entityType, entityID, content, fault, pick)
         IN  [err |-> r.err, versions |-> r.versions, tracked |-> r.tracked, content |-> content]

\* store.VersioningList for one entity: the snapshots of (entityType, entityID).
VersioningList(vers, entityType, entityID) ==
    IF store.versioningStore = "nil" THEN <<>>
    ELSE SelectSeq(vers, LAMBDA v : v.entityType = entityType /\ v.entityID = entityID)

\* ----------------------------------------------------------- post store
\* A nil *Post.
NoPost ==
    [data |-> <<>>, dirty |-> {}]

\* What a store operation returns and leaves behind.
Result(err, post, tbl, vers, dataChanged, tracked, content) ==
    [err |-> err, post |-> post, table |-> tbl, versions |-> vers,
     dataChanged |-> dataChanged, tracked |-> tracked, content |-> content]

\* Mutant of InsertError: the id column is no key, a second row replaces
\* the first.
InsertError_NoKey(tbl, id, fault) ==
    IF fault = "exec" THEN ERR_DB ELSE ERR_NIL

\* The outcome of the INSERT of PostCreate: the id column is the primary key.
InsertError(tbl, id, fault) ==
    IF fault = "exec" THEN ERR_DB
    ELSE IF id \in DOMAIN tbl THEN ERR_DUPLICATE
    ELSE ERR_NIL

\* Mutant of InsertRow: the INSERT leaves the title column out.
InsertRow_NoTitle(tbl, post) ==
    [x \in DOMAIN tbl \cup {post.data.id} |->
        IF x = post.data.id THEN [post.data EXCEPT !.title = ""] ELSE tbl[x]]

\* The table with the row of post inserted.
InsertRow(tbl, post) ==
    [x \in DOMAIN tbl \cup {post.data.id} |-> IF x = post.data.id THEN post.data ELSE tbl[x]]

\* store.PostCreate.
PostCreateResult(post, tbl, vers, t, fault, pick) ==
    LET stamped == Set(Set(post, COLUMN_CREATED_AT, t), COLUMN_UPDATED_AT, t)
        err == InsertError(tbl, stamped.data.id, fault)
    IN  IF err # ERR_NIL
        THEN Result(err, stamped, tbl, vers, {}, FALSE, NoContent)
        ELSE LET clean == MarkAsNotDirty(stamped)
                 tr == versioningTrackEntity(vers, t, VERSIONING_TYPE_POST, clean.data.id, clean, fault, pick)
             IN  Result(tr.err, clean, InsertRow(tbl, clean), tr.versions, {}, tr.tracked, tr.content)

\* The keys PostUpdate deletes from the changed data before the UPDATE.
NotUpdatable ==
    {COLUMN_ID, "hash", "data"}

\* Mutant of NothingChanged: the early return is never taken.
NothingChanged_Never(dataChanged) ==
    Cardinality(dataChanged) < 0

\* The early return of PostUpdate: nothing left to write.
NothingChanged(dataChanged) ==
    Cardinality(dataChanged) < 1

\* Mutant of UpdateRow: the UPDATE writes every column of the post.
UpdateRow_EveryColumn(tbl, post, dataChanged) ==
    IF post.data.id \in DOMAIN tbl
    THEN [tbl EXCEPT ![post.data.id] = [c \in Columns |-> IF c # COLUMN_ID THEN post.data[c] ELSE @[c]]]
    ELSE tbl

\* The table after "UPDATE SET dataChanged WHERE id = post.ID()".
UpdateRow(tbl, post, dataChanged) ==
    IF post.data.id \in DOMAIN tbl
    THEN [tbl EXCEPT ![post.data.id] = [c \in Columns |-> IF c \in dataChanged THEN post.data[c] ELSE @[c]]]
    ELSE tbl

\* store.PostUpdate on a non-nil post.
PostUpdateResult(post, tbl, vers, t, fault, pick) ==
    LET dataChanged == post.dirty \ NotUpdatable
    IN  IF NothingChanged(dataChanged)
        THEN Result(ERR_NIL, post, tbl, vers, dataChanged, FALSE, NoContent)
        ELSE LET err == IF fault = "exec" THEN ERR_DB ELSE ERR_NIL
                 tbl2 == IF err = ERR_NIL THEN UpdateRow(tbl, post, dataChanged) ELSE tbl
                 clean == MarkAsNotDirty(post)
                 tr == versioningTrackEntity(vers, t, VERSIONING_TYPE_POST, clean.data.id, clean, fault, pick)
             IN  Result(IF tr.err # ERR_NIL THEN tr.err ELSE err, clean, tbl2, tr.versions,
                        dataChanged, tr.tracked, tr.content)

\* Mutant of PostTrashResult: trashing stamps soft_deleted_at as well.
PostTrashResult_SoftDeletes(post, tbl, vers, t, fault, pick) ==
    PostUpdateResult(Set(Set(post, COLUMN_STATUS, POST_STATUS_TRASH), COLUMN_SOFT_DELETED_AT, t),
                     tbl, vers, t, fault, pick)

\* store.PostTrash.
PostTrashResult(post, tbl, vers, t, fault, pick) ==
    PostUpdateResult(Set(post, COLUMN_STATUS, POST_STATUS_TRASH), tbl, vers, t, fault, pick)

\* Mutant of PostSoftDeleteResult: the stamp is the second after the clock.
PostSoftDeleteResult_NextSecond(post, tbl, vers, t, fault, pick) ==
    PostUpdateResult(Set(post, COLUMN_SOFT_DELETED_AT, t + 1), tbl, vers, t, fault, pick)

\* store.PostSoftDelete on a non-nil post.
PostSoftDeleteResult(post, tbl, vers, t, fault, pick) ==
    PostUpdateResult(Set(post, COLUMN_SOFT_DELETED_AT, t), tbl, vers, t, fault, pick)

\* Mutant of PostDeleteByIDResult: the delete cascades to the snapshots.
PostDeleteByIDResult_Cascade(tbl, vers, id, fault) ==
    IF id = "" THEN Result(ERR_ID_EMPTY, NoPost, tbl, vers, {}, FALSE, NoContent)
    ELSE IF fault = "exec" THEN Result(ERR_DB, NoPost, tbl, vers, {}, FALSE, NoContent)
    ELSE Result(ERR_NIL, NoPost, [x \in DOMAIN tbl \ {id} |-> tbl[x]],
                SelectSeq(vers, LAMBDA v : v.entityID # id), {}, FALSE, NoContent)

\* Mutant of PostDeleteByIDResult: the row is stamped as soft-deleted
\* instead of being removed.
PostDeleteByIDResult_Stamps(tbl, vers, id, fault) ==
    IF id = "" THEN Result(ERR_ID_EMPTY, NoPost, tbl, vers, {}, FALSE, NoContent)
    ELSE IF fault = "exec" THEN Result(ERR_DB, NoPost, tbl, vers, {}, FALSE, NoContent)
    ELSE Result(ERR_NIL, NoPost,
                [x \in DOMAIN tbl |-> IF x = id THEN [tbl[x] EXCEPT !.soft_deleted_at = 0] ELSE tbl[x]],
                vers, {}, FALSE, NoContent)

\* store.PostDeleteByID: a DELETE on the post table, nothing else.
PostDeleteByIDResult(tbl, vers, id, fault) ==
    IF id = "" THEN Result(ERR_ID_EMPTY, NoPost, tbl, vers, {}, FALSE, NoContent)
    ELSE IF fault = "exec" THEN Result(ERR_DB, NoPost, tbl, vers, {}, FALSE, NoContent)
    ELSE Result(ERR_NIL, NoPost, [x \in DOMAIN tbl \ {id} |-> tbl[x]], vers, {}, FALSE, NoContent)

\* Mutant of PostSoftDeleteByID: the lookup also returns a soft-deleted row.
PostSoftDeleteByID_FindsHidden(tbl, vers, t, id, fault) ==
    IF id # "" /\ fault # "select" /\ id \in DOMAIN tbl
    THEN {PostSoftDeleteResult(NewPostFromExistingData(tbl[id]), tbl, vers, t, fault, pick) :
            pick \in LastVersioningList(vers, VERSIONING_TYPE_POST, id)}
    ELSE UNION {IF f.err # ERR_NIL THEN {Result(f.err, NoPost, tbl, vers, {}, FALSE, NoContent)}
                ELSE {Result(ERR_POST_NIL, NoPost, tbl, vers, {}, FALSE, NoContent)} :
                f \in PostFindByID(tbl, t, id, fault)}

\* store.PostSoftDeleteByID: the possible results, over the row the lookup
\* of PostFindByID returns and the snapshot the tracking lookup returns.
PostSoftDeleteByID(tbl, vers, t, id, fault) ==
    UNION {IF f.err # ERR_NIL THEN {Result(f.err, NoPost, tbl, vers, {}, FALSE, NoContent)}
           ELSE IF ~f.found THEN {Result(ERR_POST_NIL, NoPost, tbl, vers, {}, FALSE, NoContent)}
           ELSE {PostSoftDeleteResult(NewPostFromExistingData(tbl[f.id]), tbl, vers, t, fault, pick) :
                    pick \in LastVersioningList(vers, VERSIONING_TYPE_POST, f.id)} :
           f \in PostFindByID(tbl, t, id, fault)}

\* The rows a post id can be stored as: a visible draft created at one of
\* the seconds stamps, or a trashed or a soft-deleted post created at the
\* second at.
StoredRows(id, stamps, at) ==
    {[id |-> id, status |-> k.status, title |-> k.title, content |-> k.content, metas |-> "{}",
      created_at |-> c, updated_at |-> c, soft_deleted_at |-> k.soft_deleted_at] :
        k \in {x \in RowKinds : x.status = POST_STATUS_DRAFT /\ x.soft_deleted_at = MAX_DATETIME},
        c \in stamps}
    \cup {[id |-> id, status |-> k.status, title |-> k.title, content |-> k.content, metas |-> "{}",
           created_at |-> at, updated_at |-> at, soft_deleted_at |-> k.soft_deleted_at] :
            k \in RowKinds}

\* The post tables that hold the posts ids.
StoredTables(ids, stamps, at) ==
    {tbl \in [ids -> UNION {StoredRows(id, stamps, at) : id \in ids}] : \A id \in ids : tbl[id].id = id}

\* ------------------------------------------------------------------ actions
Init ==
    /\ store \in {[versioningEnabled |-> FALSE, versioningStore |-> "nil"],
                  [versioningEnabled |-> TRUE, versioningStore |-> "versionstore"]}
    /\ table = <<>>
    /\ versions = <<>>
    /\ posts = <<>>
    /\ now = 0
    /\ calls = 0
    /\ last = [op |-> "NewStore", h |-> "", id |-> "", err |-> ERR_NIL, tracked |-> FALSE]

\* The call op(h, id) returned r.
Returned(op, h, id, r) ==
    /\ calls' = calls + 1
    /\ last' = [op |-> op, h |-> h, id |-> id, err |-> r.err, tracked |-> r.tracked]

\* A call that touches neither table.
Plain(op, h, id, err) ==
    /\ Returned(op, h, id, Result(err, NoPost, table, versions, {}, FALSE, NoContent))
    /\ UNCHANGED <<store, table, versions, now>>

\* The caller's variable h now points to post.
Assign(h, post) ==
    posts' = [x \in DOMAIN posts \cup {h} |-> IF x = h THEN post ELSE posts[x]]

\* The outcome r of a store operation on the post held in h.
Apply(op, h, r) ==
    /\ Returned(op, h, posts[h].data.id, r)
    /\ table' = r.table
    /\ versions' = r.versions
    /\ posts' = [posts EXCEPT ![h] = r.post]
    /\ UNCHANGED <<store, now>>

\* h := NewPost()
DoNewPost(h) ==
    /\ calls < MaxCalls
    /\ \E id \in IDs \ {""} :
        /\ Assign(h, NewPost(id, now))
        /\ Plain("NewPost", h, id, ERR_NIL)

\* h.SetID(id)
DoSetID(h, id) ==
    /\ calls < MaxCalls
    /\ h \in DOMAIN posts
    /\ Assign(h, Set(posts[h], COLUMN_ID, id))
    /\ Plain("SetID", h, id, ERR_NIL)

\* h.SetTitle(title)
DoSetTitle(h, title) ==
    /\ calls < MaxCalls
    /\ h \in DOMAIN posts
    /\ Assign(h, Set(posts[h], COLUMN_TITLE, title))
    /\ Plain("SetTitle", h, posts[h].data.id, ERR_NIL)

\* h.SetSoftDeletedAt(t)
DoSetSoftDeletedAt(h, t) ==
    /\ calls < MaxCalls
    /\ h \in DOMAIN posts
    /\ Assign(h, Set(posts[h], COLUMN_SOFT_DELETED_AT, t))
    /\ Plain("SetSoftDeletedAt", h, posts[h].data.id, ERR_NIL)

\* store.PostCreate(ctx, h)
DoPostCreate(h, fault) ==
    /\ calls < MaxCalls
    /\ h \in DOMAIN posts
    /\ \E pick \in LastVersioningList(versions, VERSIONING_TYPE_POST, posts[h].data.id) :
        Apply("PostCreate", h, PostCreateResult(posts[h], table, versions, now, fault, pick))

\* store.PostUpdate(ctx, h)
DoPostUpdate(h, fault) ==
    /\ calls < MaxCalls
    /\ IF h \notin DOMAIN posts
       THEN Plain("PostUpdate", h, "", ERR_ORDER_NIL) /\ UNCHANGED posts
       ELSE \E pick \in LastVersioningList(versions, VERSIONING_TYPE_POST, posts[h].data.id) :
                Apply("PostUpdate", h, PostUpdateResult(posts[h], table, versions, now, fault, pick))

\* store.PostTrash(ctx, h)
DoPostTrash(h, fault) ==
    /\ calls < MaxCalls
    /\ h \in DOMAIN posts
    /\ \E pick \in LastVersioningList(versions, VERSIONING_TYPE_POST, posts[h].data.id) :
        Apply("PostTrash", h, PostTrashResult(posts[h], table, versions, now, fault, pick))

\* store.PostSoftDelete(ctx, h)
DoPostSoftDelete(h, fault) ==
    /\ calls < MaxCalls
    /\ IF h \notin DOMAIN posts
       THEN Plain("PostSoftDelete", h, "", ERR_POST_NIL) /\ UNCHANGED posts
       ELSE \E pick \in LastVersioningList(versions, VERSIONING_TYPE_POST, posts[h].data.id) :
                Apply("PostSoftDelete", h, PostSoftDeleteResult(posts[h], table, versions, now, fault, pick))

\* store.PostSoftDeleteByID(ctx, id)
DoPostSoftDeleteByID(id, fault) ==
    /\ calls < MaxCalls
    /\ \E r \in PostSoftDeleteByID(table, versions, now, id, fault) :
        /\ Returned("PostSoftDeleteByID", "", id, r)
        /\ table' = r.table
        /\ versions' = r.versions
        /\ UNCHANGED <<store, posts, now>>

\* store.PostDeleteByID(ctx, id)
DoPostDeleteByID(id, fault) ==
    /\ calls < MaxCalls
    /\ LET r == PostDeleteByIDResult(table, versions, id, fault)
       IN  /\ Returned("PostDeleteByID", "", id, r)
           /\ table' = r.table
           /\ versions' = r.versions
           /\ UNCHANGED <<store, posts, now>>

\* store.PostDelete(ctx, h)
DoPostDelete(h, fault) ==
    /\ calls < MaxCalls
    /\ IF h \notin DOMAIN posts
       THEN Plain("PostDelete", h, "", ERR_POST_NIL) /\ UNCHANGED posts
       ELSE LET r == PostDeleteByIDResult(table, versions, posts[h].data.id, fault)
            IN  /\ Returned("PostDelete", h, posts[h].data.id, r)
                /\ table' = r.table
                /\ versions' = r.versions
                /\ UNCHANGED <<store, posts, now>>

\* h, err := store.PostFindByID(ctx, id)
DoPostFindByID(h, id, fault) ==
    /\ calls < MaxCalls
    /\ \E f \in PostFindByID(table, now, id, fault) :
        /\ IF f.found
           THEN Assign(h, NewPostFromExistingData(table[f.id]))
           ELSE posts' = [x \in DOMAIN posts \ {h} |-> posts[x]]
        /\ Plain("PostFindByID", h, id, f.err)

\* The clock reaches the next second.
Tick ==
    /\ now < MaxTime
    /\ now' = now + 1
    /\ UNCHANGED <<store, table, versions, posts, calls, last>>

Next ==
    \/ \E h \in Handles : DoNewPost(h)
    \/ \E h \in Handles, id \in IDs : DoSetID(h, id)
    \/ \E h \in Handles, title \in Titles : DoSetTitle(h, title)
    \/ \E h \in Handles, t \in 0..MaxTime : DoSetSoftDeletedAt(h, t)
    \/ \E h \in Handles, fault \in WriteFaults : DoPostCreate(h, fault)
    \/ \E h \in Handles, fault \in WriteFaults : DoPostUpdate(h, fault)
    \/ \E h \in Handles, fault \in WriteFaults : DoPostTrash(h, fault)
    \/ \E h \in Handles, fault \in WriteFaults : DoPostSoftDelete(h, fault)
    \/ \E id \in IDs, fault \in Faults : DoPostSoftDeleteByID(id, fault)
    \/ \E id \in IDs, fault \in ExecFaults : DoPostDeleteByID(id, fault)
    \/ \E h \in Handles, fault \in ExecFaults : DoPostDelete(h, fault)
    \/ \E h \in Handles, id \in IDs, fault \in SelectFaults : DoPostFindByID(h, id, fault)
    \/ Tick

Spec ==
    Init /\ [][Next]_vars

\* h.SetMetas(metas)
DoSetMetas(h, metas) ==
    /\ calls < MaxCalls
    /\ h \in DOMAIN posts
    /\ Assign(h, SetMetas(posts[h], metas))
    /\ Plain("SetMetas", h, posts[h].data.id, ERR_NIL)

\* NewPost().UnmarshalFromVersioning(content), where content is what
\* h.MarshalToVersioning() returned (valid) or a text that is no JSON; id
\* is the id NewPost drew.  The restored post is kept in last.
DoUnmarshalFromVersioning(h, id, valid) ==
    /\ calls < MaxCalls
    /\ h \in DOMAIN posts
    /\ LET content == IF valid THEN MarshalToVersioning(posts[h]) ELSE InvalidJSON
           r == UnmarshalFromVersioning(NewPost(id, now), content, now)
       IN  /\ calls' = calls + 1
           /\ last' = [op |-> "UnmarshalFromVersioning", h |-> h, id |-> id, err |-> r.err,
                       tracked |-> FALSE, content |-> content, restored |-> r.post]
    /\ UNCHANGED <<store, table, versions, posts, now>>

\* The calls on a post object and its versioning content.
NextRestore ==
    \/ \E h \in Handles : DoNewPost(h)
    \/ \E h \in Handles, id \in IDs : DoSetID(h, id)
    \/ \E h \in Handles, title \in Titles : DoSetTitle(h, title)
    \/ \E h \in Handles, metas \in MetasMaps : DoSetMetas(h, metas)
    \/ \E h \in Handles, t \in 0..MaxTime : DoSetSoftDeletedAt(h, t)
    \/ \E h \in Handles, id \in IDs \ {""}, valid \in BOOLEAN : DoUnmarshalFromVersioning(h, id, valid)
    \/ Tick

RestoreSpec ==
    Init /\ [][NextRestore]_vars

\* A store without versioning opened on a table that holds up to three
\* posts, created in the seconds 0..MaxTime+1; the clock stands at second 0.
InitQuery ==
    /\ store = [versioningEnabled |-> FALSE, versioningStore |-> "nil"]
    /\ table \in UNION {StoredTables(ids, 0..(MaxTime + 1), 1) : ids \in {{}, {"p1"}, {"p1", "p2"}, StoredIDs}}
    /\ versions = <<>>
    /\ posts = <<>>
    /\ now = 0
    /\ calls = 0
    /\ last = [op |-> "NewStore", h |-> "", id |-> "", err |-> ERR_NIL, tracked |-> FALSE]

\* The query op returned (err, list, count) while the backend did fault; id
\* names the post passed, if any.
Queried(op, id, options, fault, err, list, count) ==
    /\ calls' = calls + 1
    /\ last' = [op |-> op, h |-> "", id |-> id, err |-> err, tracked |-> FALSE,
                options |-> options, fault |-> fault, list |-> list, count |-> count]
    /\ UNCHANGED <<store, table, versions, posts, now>>

\* store.PostList(ctx, options), the first call on the store.
DoPostList(options, fault) ==
    /\ calls = 0
    /\ \E r \in PostListResult(table, now, options, fault) :
        Queried("PostList", "", options, fault, r.err, r.list, 0)

\* store.PostCount(ctx, options), the first call on the store.
DoPostCount(options, fault) ==
    /\ calls = 0
    /\ LET r == PostCountResult(table, now, options, fault)
       IN  Queried("PostCount", "", options, fault, r.err, <<>>, r.count)

\* store.PostFindPrevious(p) for a stored post p, the first call on the store.
DoPostFindPrevious(id, fault) ==
    /\ calls = 0
    /\ id \in DOMAIN table
    /\ \E r \in PostFindPrevious(table, now, NewPostFromExistingData(table[id]), fault) :
        Queried("PostFindPrevious", id, DefaultOptions, fault, r.err, r.list, 0)

\* store.PostFindNext(p) for a stored post p, the first call on the store.
DoPostFindNext(id, fault) ==
    /\ calls = 0
    /\ id \in DOMAIN table
    /\ \E r \in PostFindNext(table, now, NewPostFromExistingData(table[id]), fault) :
        Queried("PostFindNext", id, DefaultOptions, fault, r.err, r.list, 0)

NextQuery ==
    \/ \E options \in QueryOptions, fault \in SelectFaults : DoPostList(options, fault)
    \/ \E options \in QueryOptions, fault \in CountFaults : DoPostCount(options, fault)
    \/ \E id \in StoredIDs, fault \in SelectFaults : DoPostFindPrevious(id, fault)
    \/ \E id \in StoredIDs, fault \in SelectFaults : DoPostFindNext(id, fault)

QuerySpec ==
    InitQuery /\ [][NextQuery]_vars

\* A store opened on a table that holds one or two posts.
InitStored ==
    /\ store \in {[versioningEnabled |-> FALSE, versioningStore |-> "nil"],
                  [versioningEnabled |-> TRUE, versioningStore |-> "versionstore"]}
    /\ table \in StoredTables({"p1"}, {0}, 0) \cup StoredTables({"p1", "p2"}, {0}, 0)
    /\ versions = <<>>
    /\ posts = <<>>
    /\ now = 0
    /\ calls = 0
    /\ last = [op |-> "NewStore", h |-> "", id |-> "", err |-> ERR_NIL, tracked |-> FALSE]

\* A caller that loads a stored post, changes it and updates it.
NextUpdate ==
    \/ \E h \in Handles, id \in {"p1", "p2"} : DoSetID(h, id)
    \/ \E h \in Handles, title \in Titles : DoSetTitle(h, title)
    \/ \E h \in Handles, fault \in ExecFaults : DoPostUpdate(h, fault)
    \/ \E h \in Handles, id \in {"p1", "p2"}, fault \in SelectFaults : DoPostFindByID(h, id, fault)
    \/ Tick

UpdateSpec ==
    InitStored /\ [][NextUpdate]_vars

\* ------------------------------------------------------------- MCP tool
\* The arguments of a post_upsert call: the id of a stored post, of no
\* post, or none; a title, a blank one, or none; no featured flag or one
\* that is not "yes" or "no".
UpsertArgs ==
    [id : {"", "p1", "p2"}, title : {"", " ", "a"}, featured : {""}]
    \cup [id : {"", "p1"}, title : {"a"}, featured : {"true"}]

\* The id uid.HumanUid() gives the NewPost of a post_upsert call: an id
\* that no stored post has.
HumanUid(tbl) ==
    IF "p3" \notin DOMAIN tbl THEN "p3"
    ELSE IF "p4" \notin DOMAIN tbl THEN "p4"
    ELSE "p5"

\* strings.TrimSpace on the texts the model uses.
TrimSpace(text) ==
    IF text = " " THEN "" ELSE text

\* What toolPostUpsert returns and leaves behind; id is the id in the
\* returned JSON, "" with an error.
Upserted(err, id, tbl, vers) ==
    [err |-> err, id |-> id, table |-> tbl, versions |-> vers]

\* Mutant of toolPostUpsertPost: a post that was not found gets a new id,
\* whatever id was given.
toolPostUpsertPost_NewID(found, row, args, t, uid) ==
    LET created == Set(NewPost(uid, t), COLUMN_TITLE, args.title)
        post == IF found THEN NewPostFromExistingData(row) ELSE created
        titled == IF args.title # "" THEN Set(post, COLUMN_TITLE, args.title) ELSE post
    IN  [titled EXCEPT !.dirty = @ \cup {"content_type", "editor"}]

\* MCP.toolPostUpsert, the post it builds: the post found, or a new post
\* with the given id (if any) and the title; then the title (if given),
\* and the content type and the editor, are set.
toolPostUpsertPost(found, row, args, t, uid) ==
    LET new == NewPost(uid, t)
        created == Set(IF TrimSpace(args.id) # "" THEN Set(new, COLUMN_ID, args.id) ELSE new,
                       COLUMN_TITLE, args.title)
        post == IF found THEN NewPostFromExistingData(row) ELSE created
        titled == IF args.title # "" THEN Set(post, COLUMN_TITLE, args.title) ELSE post
    IN  [titled EXCEPT !.dirty = @ \cup {"content_type", "editor"}]

\* Mutant of toolPostUpsert: the lookup also returns a soft-deleted post.
toolPostUpsert_FindsHidden(tbl, vers, t, args, fault) ==
    LET lookup == IF TrimSpace(args.id) = "" THEN {[err |-> ERR_NIL, found |-> FALSE, id |-> ""]}
                  ELSE IF fault # "select" /\ args.id \in DOMAIN tbl
                       THEN {[err |-> ERR_NIL, found |-> TRUE, id |-> args.id]}
                       ELSE PostFindByID(tbl, t, args.id, fault)
    IN  UNION {
          IF f.err # ERR_NIL THEN {Upserted(f.err, "", tbl, vers)}
          ELSE IF ~f.found /\ TrimSpace(args.title) = "" THEN {Upserted(ERR_TITLE_REQUIRED, "", tbl, vers)}
          ELSE IF args.featured \notin {"", "yes", "no"} THEN {Upserted(ERR_FEATURED, "", tbl, vers)}
          ELSE LET post == toolPostUpsertPost(f.found, IF f.found THEN tbl[f.id] ELSE <<>>, args, t, HumanUid(tbl))
               IN  {LET r == IF f.found THEN PostUpdateResult(post, tbl, vers, t, fault, pick)
                             ELSE PostCreateResult(post, tbl, vers, t, fault, pick)
                    IN  Upserted(r.err, IF r.err = ERR_NIL THEN r.post.data.id ELSE "", r.table, r.versions) :
                        pick \in LastVersioningList(vers, VERSIONING_TYPE_POST, post.data.id)} :
          f \in lookup}

\* MCP.toolPostUpsert: the possible outcomes.
toolPostUpsert(tbl, vers, t, args, fault) ==
    LET lookup == IF TrimSpace(args.id) # "" THEN PostFindByID(tbl, t, args.id, fault)
                  ELSE {[err |-> ERR_NIL, found |-> FALSE, id |-> ""]}
    IN  UNION {
          IF f.err # ERR_NIL THEN {Upserted(f.err, "", tbl, vers)}
          ELSE IF ~f.found /\ TrimSpace(args.title) = "" THEN {Upserted(ERR_TITLE_REQUIRED, "", tbl, vers)}
          ELSE IF args.featured \notin {"", "yes", "no"} THEN {Upserted(ERR_FEATURED, "", tbl, vers)}
          ELSE LET post == toolPostUpsertPost(f.found, IF f.found THEN tbl[f.id] ELSE <<>>, args, t, HumanUid(tbl))
               IN  {LET r == IF f.found THEN PostUpdateResult(post, tbl, vers, t, fault, pick)
                             ELSE PostCreateResult(post, tbl, vers, t, fault, pick)
                    IN  Upserted(r.err, IF r.err = ERR_NIL THEN r.post.data.id ELSE "", r.table, r.versions) :
                        pick \in LastVersioningList(vers, VERSIONING_TYPE_POST, post.data.id)} :
          f \in lookup}

\* tools/call post_upsert
DoPostUpsert(args, fault) ==
    /\ calls < MaxUpserts
    /\ \E r \in toolPostUpsert(table, versions, now, args, fault) :
        /\ calls' = calls + 1
        /\ last' = [op |-> "post_upsert", h |-> "", id |-> args.id, err |-> r.err, tracked |-> FALSE,
                    args |-> args, fault |-> fault, returned |-> r.id]
        /\ table' = r.table
        /\ versions' = r.versions
    /\ UNCHANGED <<store, posts, now>>

\* A client of the MCP endpoint that upserts posts, next to a caller that
\* soft-deletes stored posts, all within one second.
NextUpsert ==
    \/ \E args \in UpsertArgs, fault \in Faults : DoPostUpsert(args, fault)
    \/ \E id \in {"p1", "p2"}, fault \in ExecFaults : DoPostSoftDeleteByID(id, fault)

UpsertSpec ==
    InitStored /\ [][NextUpsert]_vars

\* The ids a caller passes to the calls that take an id.
ByIDs == {"", "p1", "p2"}

\* A caller that finds, soft-deletes and deletes stored posts by id.
NextByID ==
    \/ \E id \in ByIDs, fault \in Faults : DoPostSoftDeleteByID(id, fault)
    \/ \E id \in ByIDs, fault \in ExecFaults : DoPostDeleteByID(id, fault)
    \/ \E h \in Handles, id \in ByIDs, fault \in SelectFaults : DoPostFindByID(h, id, fault)
    \/ Tick

ByIDSpec ==
    InitStored /\ [][NextByID]_vars

\* ------------------------------------------------------------------ claims
\* The step just taken is the call op on the post held in h.
Step(op, h) ==
    calls' = calls + 1 /\ last'.op = op /\ last'.h = h

\* The snapshots stored for post id, oldest first.
SnapshotsOf(vers, id) ==
    SelectSeq(vers, LAMBDA v : v.entityType = VERSIONING_TYPE_POST /\ v.entityID = id)

\* The ids a default-option PostList returns, and those it returns with
\* WithDeleted set.
ListedIDs ==
    UNION {Range(list) : list \in PostList(table, now, DefaultOptions)}

ListedIDsWithDeleted ==
    UNION {Range(list) : list \in PostList(table, now, [DefaultOptions EXCEPT !.WithDeleted = TRUE])}

\* C1: once PostSoftDeleteByID(id) has returned success, PostList and
\* PostCount with default options do not include the post, PostFindByID(id)
\* returns nil without error, and PostList with WithDeleted still returns it.
C1_SoftDeleteByIDHides ==
    (last.op = "PostSoftDeleteByID" /\ last.err = ERR_NIL) =>
        /\ last.id \notin ListedIDs
        /\ PostCount(table, now, DefaultOptions) =
               Cardinality({x \in DOMAIN table \ {last.id} : table[x].soft_deleted_at > now})
        /\ \A f \in PostFindByID(table, now, last.id, "none") : f.err = ERR_NIL /\ ~f.found
        /\ last.id \in ListedIDsWithDeleted

\* A post has been soft-deleted by id and is still stored.
C1_Witness ==
    /\ last.op = "PostSoftDeleteByID"
    /\ last.err = ERR_NIL
    /\ last.id \in DOMAIN table
    /\ table[last.id].soft_deleted_at <= now

\* What PostFindByID(id) returns after the step, compared with the post the
\* caller passed: non-nil, every column but created_at and updated_at as the
\* caller set it, created_at and updated_at stamped.
FoundAsSet(h) ==
    \A f \in PostFindByID(table', now', posts[h].data.id, "none") :
        /\ f.err = ERR_NIL
        /\ f.found
        /\ \A c \in Columns \ {COLUMN_CREATED_AT, COLUMN_UPDATED_AT} : table'[f.id][c] = posts[h].data[c]
        /\ table'[f.id].created_at = now'
        /\ table'[f.id].updated_at = now'

\* C2 as stated: for every post passed to a PostCreate that succeeds,
\* PostFindByID(post.ID()) right after returns a non-nil post with every
\* field as the caller set it and created_at, updated_at non-empty.
C2_Original ==
    [][\A h \in Handles : (Step("PostCreate", h) /\ last'.err = ERR_NIL) => FoundAsSet(h)]_vars

\* C2 amended: the same, for a post whose id is not blank and whose
\* soft_deleted_at is later than the current instant.
C2_CreateThenFind ==
    [][\A h \in Handles :
        (/\ Step("PostCreate", h)
         /\ last'.err = ERR_NIL
         /\ posts[h].data.id # ""
         /\ posts[h].data.soft_deleted_at > now) => FoundAsSet(h)]_vars

\* A post with a title set by the caller has been created and is visible.
C2_Witness ==
    /\ last.op = "PostCreate"
    /\ last.err = ERR_NIL
    /\ last.id # ""
    /\ last.id \in DOMAIN table
    /\ Visible(table[last.id], now)
    /\ table[last.id].title # ""

\* The operations that run store.PostUpdate on a post.
UpdateOps ==
    {"PostUpdate", "PostTrash", "PostSoftDelete", "PostSoftDeleteByID"}

\* The step just taken is a call of one of ops that returned success.
Succeeded(ops) ==
    calls' = calls + 1 /\ last'.op \in ops /\ last'.err = ERR_NIL

\* The content of the snapshot of post id that was created last is that of
\* the stored row: the history of id is up to date.
InSync(id) ==
    /\ id \in DOMAIN table
    /\ SnapshotsOf(versions, id) # <<>>
    /\ SnapshotsOf(versions, id)[Len(SnapshotsOf(versions, id))].content = RowContent(table[id])

\* C3 as stated: with versioning enabled a post has exactly 1 snapshot after
\* a successful PostCreate, and a successful PostUpdate adds exactly 1
\* snapshot when the resulting content differs from the content at the
\* previous create/update and none when it is identical to it.
C3_SnapshotCount ==
    [][VersioningEnabled =>
        /\ Succeeded({"PostCreate"}) => Len(SnapshotsOf(versions', last'.id)) = 1
        /\ (Succeeded(UpdateOps) /\ InSync(last'.id)) =>
              Len(SnapshotsOf(versions', last'.id)) =
                  Len(SnapshotsOf(versions, last'.id))
                  + (IF RowContent(table'[last'.id]) # RowContent(table[last'.id]) THEN 1 ELSE 0)]_vars

\* C4: PostUpdate on a post with no dirty field returns nil, leaves the post
\* table as it is and creates no snapshot.
C4_UpdateWithoutChangeIsNoop ==
    [][\A h \in Handles :
        (Step("PostUpdate", h) /\ h \in DOMAIN posts /\ posts[h].dirty = {}) =>
            /\ last'.err = ERR_NIL
            /\ table' = table
            /\ versions' = versions]_vars

\* With versioning enabled, a PostUpdate of a stored post returned early:
\* it is a success that never reached the tracking.
C4_Witness ==
    /\ VersioningEnabled
    /\ last.op = "PostUpdate"
    /\ last.err = ERR_NIL
    /\ ~last.tracked
    /\ last.id \in DOMAIN table
    /\ posts[last.h].dirty = {}

\* The content the tracking call of the step just taken was given.
TrackedContent ==
    IF last'.h # "" THEN MarshalToVersioning(posts'[last'.h]) ELSE RowContent(table'[last'.id])

\* C5 as stated: a tracking call appends a snapshot if and only if the entity
\* has no snapshot yet or the content differs from the content of the
\* snapshot that was created last for the entity.
C5_AppendIffChanged ==
    [][(calls' = calls + 1 /\ last'.tracked /\ last'.err = ERR_NIL) =>
        (versions' # versions <=>
            \/ SnapshotsOf(versions, last'.id) = <<>>
            \/ SnapshotsOf(versions, last'.id)[Len(SnapshotsOf(versions, last'.id))].content # TrackedContent)]_vars

\* The INSERT of the step just taken failed.
InsertFailed ==
    last'.err \in {ERR_DB, ERR_DUPLICATE}

\* C6: when the INSERT of PostCreate fails, as it does when a row with the
\* same id is stored (visible or soft-deleted), PostCreate returns the error,
\* the post table and the snapshots are unchanged and the dirty fields of the
\* post are not cleared.
C6_FailedInsert ==
    [][\A h \in Handles : Step("PostCreate", h) =>
        /\ posts[h].data.id \in DOMAIN table => InsertFailed
        /\ InsertFailed =>
            /\ table' = table
            /\ versions' = versions
            /\ posts'[h].dirty = posts[h].dirty \cup {COLUMN_CREATED_AT, COLUMN_UPDATED_AT}]_vars

\* PostCreate of the id of a stored, soft-deleted row has failed.
C6_Witness ==
    /\ last.op = "PostCreate"
    /\ last.err = ERR_DUPLICATE
    /\ last.id \in DOMAIN table
    /\ ~Visible(table[last.id], now)
    /\ posts[last.h].dirty # {}

\* The step just taken is a PostCreate of the post in h, or a PostUpdate of
\* the stored post in h that executed its UPDATE (no early return).
Wrote(h) ==
    \/ Step("PostCreate", h)
    \/ /\ Step("PostUpdate", h)
       /\ h \in DOMAIN posts
       /\ posts[h].dirty \ NotUpdatable # {}
       /\ posts[h].data.id \in DOMAIN table

\* C7 as stated: PostCreate and PostUpdate have no partial success.  A call
\* that returns an error created no snapshot; a PostUpdate whose UPDATE
\* failed did not clear the dirty fields; a call that returns success left
\* every column it wrote stored in the row of the post.
C7_NoPartialSuccess ==
    [][\A h \in Handles : Wrote(h) =>
        /\ last'.err # ERR_NIL => versions' = versions
        /\ (last'.op = "PostUpdate" /\ last'.err = ERR_DB) => posts'[h].dirty = posts[h].dirty
        /\ last'.err = ERR_NIL =>
            /\ last'.id \in DOMAIN table'
            /\ \A c \in (IF last'.op = "PostCreate" THEN Columns ELSE posts[h].dirty \ NotUpdatable) :
                   table'[last'.id][c] = posts'[h].data[c]]_vars

\* C8 as stated: with versioning enabled, the content of a snapshot created
\* by PostCreate, or by PostUpdate of a stored post, is the content of the
\* row stored for that id at that moment.
C8_SnapshotIsStoredContent ==
    [][(/\ VersioningEnabled
        /\ calls' = calls + 1
        /\ last'.op \in {"PostCreate"} \cup UpdateOps
        /\ last'.id \in DOMAIN table'
        /\ versions' # versions) =>
            versions'[Len(versions')].content = RowContent(table'[last'.id])]_vars

\* C9: over every operation the snapshot table only grows at its end: no
\* snapshot is removed or changed, also when a post is soft-deleted or
\* hard-deleted.
C9_SnapshotsAppendOnly ==
    [][/\ Len(versions') >= Len(versions)
       /\ SubSeq(versions', 1, Len(versions)) = versions]_vars

\* A post that has snapshots has been hard-deleted.
C9_Witness ==
    /\ last.op \in {"PostDelete", "PostDeleteByID"}
    /\ last.err = ERR_NIL
    /\ last.id \notin DOMAIN table
    /\ SnapshotsOf(versions, last.id) # <<>>

\* The errors a tracking call can return.
TrackingErrors ==
    {ERR_VSTORE_NIL, ERR_ENTITY_TYPE_EMPTY, ERR_ENTITY_ID_EMPTY, ERR_VERSION_DB}

\* C10: with versioning disabled every tracking call is a no-op returning
\* success: no operation ever returns a tracking error, no snapshot is
\* stored and VersioningList returns the empty list.
C10_DisabledVersioningIsNoop ==
    (~store.versioningEnabled) =>
        /\ last.err \notin TrackingErrors
        /\ ~last.tracked
        /\ versions = <<>>
        /\ \A id \in IDs : VersioningList(versions, VERSIONING_TYPE_POST, id) = <<>>

\* With versioning disabled, a PostUpdate has written a stored row.
C10_Witness ==
    /\ ~store.versioningEnabled
    /\ last.op = "PostUpdate"
    /\ last.err = ERR_NIL
    /\ last.id \in DOMAIN table
    /\ table[last.id].title # ""

\* C11: PostUpdate leaves every row but the one whose id is post.ID() as it
\* is, and every column of that row that is not dirty on the post (updated_at
\* included, and the id column always); when it succeeds the dirty columns
\* of that row hold the values of the post.
C11_UpdateWritesDirtyColumnsOnly ==
    [][\A h \in Handles : (Step("PostUpdate", h) /\ h \in DOMAIN posts) =>
        /\ DOMAIN table' = DOMAIN table
        /\ \A x \in DOMAIN table \ {posts[h].data.id} : table'[x] = table[x]
        /\ posts[h].data.id \in DOMAIN table =>
            \A c \in Columns :
                IF c \in posts[h].dirty \ NotUpdatable
                THEN last'.err = ERR_NIL => table'[posts[h].data.id][c] = posts[h].data[c]
                ELSE table'[posts[h].data.id][c] = table[posts[h].data.id][c]]_vars

\* A PostUpdate has written a new title into one of two stored rows, in a
\* later second than the row's updated_at.
C11_Witness ==
    /\ last.op = "PostUpdate"
    /\ last.err = ERR_NIL
    /\ Cardinality(DOMAIN table) = 2
    /\ last.id \in DOMAIN table
    /\ table[last.id].title = "a"
    /\ table[last.id].updated_at < now

\* The visible posts created strictly before, and strictly after, post id.
Earlier(id) ==
    {x \in DOMAIN table : Visible(table[x], now) /\ table[x].created_at < table[id].created_at}

Later(id) ==
    {x \in DOMAIN table : Visible(table[x], now) /\ table[x].created_at > table[id].created_at}

\* The step just taken is the query op, which returned without error.
Answered(op) ==
    calls' = calls + 1 /\ last'.op = op /\ last'.err = ERR_NIL

\* C12: PostFindPrevious(p) returns a visible post created strictly before
\* p, PostFindNext(p) one created strictly after p, never p itself or a post
\* of the same created_at, and each returns nil without error exactly when
\* there is no such post.
C12_PreviousAndNextAreStrict ==
    [][/\ Answered("PostFindPrevious") =>
            /\ last'.list = <<>> <=> Earlier(last'.id) = {}
            /\ last'.list # <<>> => last'.list[1] \in Earlier(last'.id) \ {last'.id}
       /\ Answered("PostFindNext") =>
            /\ last'.list = <<>> <=> Later(last'.id) = {}
            /\ last'.list # <<>> => last'.list[1] \in Later(last'.id) \ {last'.id}]_vars

\* PostFindPrevious(p) returned a post while another post has p's created_at
\* and a soft-deleted post is stored.
C12_Witness ==
    /\ last.op = "PostFindPrevious"
    /\ last.err = ERR_NIL
    /\ last.list # <<>>
    /\ \E x \in DOMAIN table \ {last.id} : table[x].created_at = table[last.id].created_at
    /\ \E x \in DOMAIN table : ~Visible(table[x], now)

\* C13 as stated: when the stored posts have distinct created_at values,
\* PostFindPrevious(p) returns the visible post with the greatest created_at
\* below p's and PostFindNext(p) the one with the smallest created_at above.
C13_PreviousAndNextAreAdjacent ==
    [][(\A x, y \in DOMAIN table : x # y => table[x].created_at # table[y].created_at) =>
        /\ (Answered("PostFindPrevious") /\ last'.list # <<>>) =>
                \A x \in Earlier(last'.id) : table[x].created_at <= table[last'.list[1]].created_at
        /\ (Answered("PostFindNext") /\ last'.list # <<>>) =>
                \A x \in Later(last'.id) : table[x].created_at >= table[last'.list[1]].created_at]_vars

\* C14 as stated: PostCount returns an error whenever it cannot produce a
\* count, and otherwise a count >= 0 without error: it never returns a
\* negative count together with a nil error.
C14_CountOrError ==
    last.op = "PostCount" =>
        /\ last.err = ERR_NIL => last.count >= 0
        /\ last.count < 0 => last.err # ERR_NIL

\* C15: when no statement fails, PostCount(options) returns the number of
\* posts PostList returns for the same options with Limit and Offset
\* cleared, whatever Limit, Offset, OrderBy and SortOrder are.
C15_CountIgnoresPaging ==
    [][(calls' = calls + 1 /\ last'.op = "PostCount" /\ last'.fault = "none") =>
        /\ last'.err = ERR_NIL
        /\ \A r \in PostListResult(table, now, [last'.options EXCEPT !.Limit = 0, !.Offset = 0], "none") :
               r.err = ERR_NIL /\ last'.count = Len(r.list)]_vars

\* PostCount has counted three posts for options that page and order.
C15_Witness ==
    /\ last.op = "PostCount"
    /\ last.fault = "none"
    /\ last.options.Limit > 0
    /\ last.options.Offset > 0
    /\ last.options.OrderBy # ""
    /\ last.count = 3

\* A PostList call has returned a list without error.
Listed ==
    calls' = calls + 1 /\ last'.op = "PostList" /\ last'.err = ERR_NIL

\* The stored posts that pass every filter present in options; Search is
\* the matter of C17.
Satisfying(options) ==
    {id \in DOMAIN table :
        /\ options.ID = "" \/ id = options.ID
        /\ options.IDIn = {} \/ id \in options.IDIn
        /\ options.Status = "" \/ table[id].status = options.Status
        /\ options.StatusIn = {} \/ table[id].status \in options.StatusIn
        /\ options.CreatedAtGreaterThan = NoTime \/ table[id].created_at > options.CreatedAtGreaterThan
        /\ options.CreatedAtLessThan = NoTime \/ table[id].created_at < options.CreatedAtLessThan
        /\ options.WithDeleted \/ table[id].soft_deleted_at > now}

\* C16: PostList returns only stored posts that satisfy every predicate
\* present in the options, each once; without an effective Limit or Offset
\* it returns all of them; ID and IDIn, Status and StatusIn are applied
\* together, so an ID outside IDIn yields the empty list.
C16_ListIsConjunction ==
    [][(Listed /\ last'.options.Search = "") =>
        LET o == last'.options
            l == last'.list
        IN  /\ Range(l) \subseteq Satisfying(o)
            /\ Cardinality(Range(l)) = Len(l)
            /\ (~HasLimit(o) /\ ~HasOffset(o)) => Range(l) = Satisfying(o)
            /\ (o.ID # "" /\ o.IDIn # {} /\ o.ID \notin o.IDIn) => l = <<>>
            /\ (o.Status # "" /\ o.StatusIn # {} /\ o.Status \notin o.StatusIn) => l = <<>>]_vars

\* PostList was asked for ID p1 within IDIn {p2}, both stored and visible,
\* and returned the empty list.
C16_Witness ==
    /\ last.op = "PostList"
    /\ last.err = ERR_NIL
    /\ last.options.ID = "p1"
    /\ last.options.IDIn = {"p2"}
    /\ last.options.Status = ""
    /\ last.options.StatusIn = {}
    /\ {"p1", "p2"} \subseteq DOMAIN table
    /\ \A id \in {"p1", "p2"} : Visible(table[id], now)
    /\ last.list = <<>>

\* The text value contains the term, letters compared without case.
Contains(value, term) ==
    LET v == Chars(value)
        w == Chars(term)
    IN  \E i \in 0..(Len(v) - Len(w)) :
            \A j \in 1..Len(w) : Lower(v[i + j]) = Lower(w[j])

\* C17: with a Search term and no effective Limit or Offset, PostList
\* returns exactly the posts that pass the other filters and whose title
\* contains the term, or whose content contains it, or whose id equals it.
C17_SearchIsContainment ==
    [][(Listed /\ last'.options.Search # "" /\ ~HasLimit(last'.options) /\ ~HasOffset(last'.options)) =>
        Range(last'.list) =
            {id \in Satisfying(last'.options) :
                \/ Contains(table[id].title, last'.options.Search)
                \/ Contains(table[id].content, last'.options.Search)
                \/ id = last'.options.Search}]_vars

\* The smaller of two numbers.
Min(a, b) ==
    IF a <= b THEN a ELSE b

\* The number of stored posts matching the filters of options.
Matching(options) ==
    Cardinality(postQuery(table, now, options))

\* C18 as stated: a Limit or Offset <= 0 is treated as unset, and a
\* Limit n > 0 returns at most n posts, whatever the other options are.
C18_Original ==
    [][Listed =>
        LET o == last'.options
            l == last'.list
        IN  /\ (o.Limit <= 0 /\ o.Offset <= 0) => Len(l) = Matching(o)
            /\ (o.Limit > 0 /\ o.Offset <= 0) => Len(l) = Min(o.Limit, Matching(o))
            /\ o.Limit > 0 => Len(l) <= o.Limit]_vars

\* C18: a Limit or Offset <= 0 is treated as unset: PostList with both <= 0
\* returns all matching posts; unless CountOnly is set, a Limit n > 0
\* returns at most n posts, the first n when Offset <= 0; with CountOnly
\* set PostList returns all matching posts whatever Limit and Offset are.
C18_LimitAndOffset ==
    [][Listed =>
        LET o == last'.options
            l == last'.list
        IN  /\ (o.Limit <= 0 /\ o.Offset <= 0) => Len(l) = Matching(o)
            /\ (o.Limit > 0 /\ o.Offset <= 0 /\ ~o.CountOnly) => Len(l) = Min(o.Limit, Matching(o))
            /\ (o.Limit > 0 /\ ~o.CountOnly) => Len(l) <= o.Limit
            /\ o.CountOnly => Len(l) = Matching(o)]_vars

\* PostList with Limit 1 returned one of three matching posts.
C18_Witness ==
    /\ last.op = "PostList"
    /\ last.err = ERR_NIL
    /\ last.options.Limit = 1
    /\ ~last.options.CountOnly
    /\ Matching(last.options) = 3
    /\ Len(last.list) = 1

\* The sort order reads "asc" in any mix of upper and lower case.
AscendingAsked(sortOrder) ==
    LET c == Chars(sortOrder)
    IN  Len(c) = 3 /\ Lower(c[1]) = "a" /\ Lower(c[2]) = "s" /\ Lower(c[3]) = "c"

\* The list is sorted by the column, ascending or descending.
SortedBy(list, column, ascending) ==
    \A i \in 1..Len(list) : \A j \in i..Len(list) :
        IF ascending THEN Before(table, column, list[i], list[j])
        ELSE Before(table, column, list[j], list[i])

\* The sort orders a caller may pass.
SortOrders == {"", "asc", "ASC", "desc", "b"}

\* C19 as stated: when OrderBy names a column the list PostList returns is
\* sorted by it, ascending iff SortOrder is "asc" in any case; when OrderBy
\* is empty the result does not depend on SortOrder; whatever the other
\* options are.
C19_Original ==
    [][Listed =>
        LET o == last'.options
        IN  IF o.OrderBy # ""
            THEN SortedBy(last'.list, o.OrderBy, AscendingAsked(o.SortOrder))
            ELSE \A so \in SortOrders :
                    last'.list \in PostList(table, now, [o EXCEPT !.SortOrder = so])]_vars

\* C19: when OrderBy names a column and CountOnly is not set, the list
\* PostList returns is sorted by that column, ascending iff SortOrder is
\* "asc" in any case and descending otherwise; when OrderBy is empty the
\* result does not depend on SortOrder.
C19_OrderByAndSortOrder ==
    [][Listed =>
        LET o == last'.options
        IN  IF o.OrderBy # ""
            THEN ~o.CountOnly => SortedBy(last'.list, o.OrderBy, AscendingAsked(o.SortOrder))
            ELSE \A so \in SortOrders :
                    last'.list \in PostList(table, now, [o EXCEPT !.SortOrder = so])]_vars

\* PostList ordered by created_at with SortOrder "ASC" returned an older
\* post before a newer one.
C19_Witness ==
    /\ last.op = "PostList"
    /\ last.err = ERR_NIL
    /\ last.options.OrderBy = COLUMN_CREATED_AT
    /\ last.options.SortOrder = "ASC"
    /\ Len(last.list) >= 2
    /\ table[last.list[1]].created_at < table[last.list[2]].created_at

\* The three timestamp columns.
Timestamps ==
    {COLUMN_CREATED_AT, COLUMN_UPDATED_AT, COLUMN_SOFT_DELETED_AT}

\* C20: the versioning content of a post has none of the keys created_at,
\* updated_at and soft_deleted_at and has every other field of the post
\* with its value, so it stays the same whatever the three timestamps are
\* set to; every stored snapshot has exactly those keys.
C20_ContentExcludesTimestamps ==
    /\ \A i \in 1..Len(versions) : DOMAIN versions[i].content = Columns \ Timestamps
    /\ \A h \in DOMAIN posts :
           LET content == versioningContentFromEntity(posts[h])
           IN  /\ DOMAIN content = Columns \ Timestamps
               /\ \A c \in Columns \ Timestamps : content[c] = posts[h].data[c]
               /\ \A created, updated \in 0..(MaxTime + 1) : \A deleted \in {0, MAX_DATETIME} :
                      versioningContentFromEntity(
                          [posts[h] EXCEPT !.data.created_at = created,
                                           !.data.updated_at = updated,
                                           !.data.soft_deleted_at = deleted]) = content

\* The newest snapshot holds the content of the post of the call that was
\* tracked last, a post with a title set.
C20_Witness ==
    /\ last.tracked
    /\ last.err = ERR_NIL
    /\ last.h \in DOMAIN posts
    /\ versions # <<>>
    /\ versions[Len(versions)].content = versioningContentFromEntity(posts[last.h])
    /\ posts[last.h].data.title = "a"

Persisted(op, h) ==
    /\ Step(op, h)
    /\ h \in DOMAIN posts
    /\ last'.err = ERR_NIL
    /\ posts[h].data.id \in DOMAIN table

\* What PostTrash and PostSoftDelete do to the row of the post: for every
\* post (asStated), or for the posts that carry no other unsaved change,
\* with PostFindByID asked for non-blank ids only.
TrashAndSoftDeleteOrthogonal(asStated) ==
    \A h \in Handles :
        LET id == posts[h].data.id
        IN  /\ (Persisted("PostTrash", h) /\ (asStated \/ posts[h].dirty \ NotUpdatable \subseteq {COLUMN_STATUS})) =>
                  /\ table'[id].status = POST_STATUS_TRASH
                  /\ table'[id].soft_deleted_at = table[id].soft_deleted_at
                  /\ id \in ListedIDs => id \in ListedIDs'
                  /\ id \in ListedIDs => PostCount(table', now', DefaultOptions) = PostCount(table, now, DefaultOptions)
                  /\ (id \in ListedIDs /\ (asStated \/ id # "")) => \A f \in PostFindByID(table', now', id, "none") : f.err = ERR_NIL /\ f.found
                  /\ id \notin ListedIDs => id \notin ListedIDs'
            /\ (Persisted("PostSoftDelete", h) /\ (asStated \/ posts[h].dirty \ NotUpdatable \subseteq {COLUMN_SOFT_DELETED_AT})) =>
                  /\ table'[id].status = table[id].status
                  /\ table'[id].soft_deleted_at = now
                  /\ id \notin ListedIDs'

\* C22 as stated: PostTrash sets the stored status to trash and leaves
\* soft_deleted_at as it is, so a visible post stays returned by
\* PostFindByID, PostList and PostCount; PostSoftDelete sets soft_deleted_at
\* and leaves the status as it is; after both the row is trash and hidden.
C22_Original ==
    [][TrashAndSoftDeleteOrthogonal(TRUE)]_vars

\* C22: the same, for a post that carries no other unsaved change when
\* PostTrash or PostSoftDelete is called, PostFindByID returning the
\* trashed post when its id is not blank.
C22_TrashAndSoftDelete ==
    [][TrashAndSoftDeleteOrthogonal(FALSE)]_vars

\* A post was trashed and then soft-deleted: its row is trash and hidden.
C22_Witness ==
    /\ last.op = "PostSoftDelete"
    /\ last.err = ERR_NIL
    /\ last.id \in DOMAIN table
    /\ table[last.id].status = POST_STATUS_TRASH
    /\ table[last.id].soft_deleted_at = now
    /\ last.id \notin ListedIDs

\* C23: once PostDeleteByID(id) has returned success, PostFindByID(id)
\* returns nil without error, PostList does not contain the post even with
\* WithDeleted set, and every other stored post is as it was.
C23_DeleteByIDRemoves ==
    [][Succeeded({"PostDeleteByID"}) =>
        /\ \A f \in PostFindByID(table', now', last'.id, "none") : f.err = ERR_NIL /\ ~f.found
        /\ last'.id \notin ListedIDsWithDeleted'
        /\ last'.id \notin ListedIDs'
        /\ \A x \in DOMAIN table \ {last'.id} : x \in DOMAIN table' /\ table'[x] = table[x]
        /\ DOMAIN table' \subseteq DOMAIN table]_vars

\* PostDeleteByID("p1") has removed the stored post p1; p2 is still stored.
C23_Witness ==
    /\ last.op = "PostDeleteByID"
    /\ last.err = ERR_NIL
    /\ last.id = "p1"
    /\ "p1" \notin DOMAIN table
    /\ "p2" \in DOMAIN table

\* The calls that take the id of a post.
ByIDOps ==
    {"PostFindByID", "PostDeleteByID", "PostSoftDeleteByID"}

\* C24: PostFindByID, PostDeleteByID and PostSoftDeleteByID called with an
\* empty id return the empty-id error, whatever the backend would do, and
\* leave the post table and the snapshots as they are; PostFindByID with a
\* non-empty id that matches no visible row returns nil and no error
\* unless the SELECT itself fails.
C24_EmptyIDAndNotFound ==
    [][/\ (calls' = calls + 1 /\ last'.op \in ByIDOps /\ last'.id = "") =>
            /\ last'.err = ERR_ID_EMPTY
            /\ table' = table
            /\ versions' = versions
       /\ \A h \in Handles :
            (/\ Step("PostFindByID", h)
             /\ last'.id # ""
             /\ ~(last'.id \in DOMAIN table /\ Visible(table[last'.id], now))) =>
                /\ last'.err \in {ERR_NIL, ERR_DB}
                /\ h \notin DOMAIN posts'
                /\ \A f \in PostFindByID(table, now, last'.id, "none") : f.err = ERR_NIL /\ ~f.found]_vars

\* PostSoftDeleteByID("") was refused while a visible post was stored.
C24_Witness ==
    /\ last.op = "PostSoftDeleteByID"
    /\ last.id = ""
    /\ last.err = ERR_ID_EMPTY
    /\ \E id \in DOMAIN table : Visible(table[id], now)

\* C25: with versioning enabled, PostCreate and PostUpdate of a post whose
\* id is blank fail with the precondition error of the tracking, and the
\* call writes neither the post table nor the snapshots.
C25_BlankIDBeforeIO ==
    [][\A h \in Handles :
        (/\ VersioningEnabled
         /\ Step("PostCreate", h) \/ Step("PostUpdate", h)
         /\ h \in DOMAIN posts
         /\ posts[h].data.id = "") =>
            /\ last'.err = ERR_ENTITY_ID_EMPTY
            /\ table' = table
            /\ versions' = versions]_vars

\* C26: a stored post is returned under default options exactly when its
\* soft_deleted_at is strictly later than the clock at the time of the
\* query: hidden when it equals the clock, visible while it is a future
\* second, always visible with the far-future sentinel; a post is hidden
\* from the moment PostSoftDelete has succeeded on it.
C26_VisibilityIsStrict ==
    /\ \A id \in DOMAIN table :
          /\ id \in ListedIDs <=> table[id].soft_deleted_at > now
          /\ table[id].soft_deleted_at = now => id \notin ListedIDs
          /\ table[id].soft_deleted_at = MAX_DATETIME => id \in ListedIDs
          /\ id \in ListedIDs <=> id \in postQuery(table, now, [DefaultOptions EXCEPT !.ID = id, !.Limit = 1])
    /\ (last.op \in {"PostSoftDelete", "PostSoftDeleteByID"} /\ last.err = ERR_NIL /\ last.id \in DOMAIN table) =>
          /\ table[last.id].soft_deleted_at <= now
          /\ last.id \notin ListedIDs

\* PostSoftDelete has just succeeded on a stored post, in the second the
\* clock still shows, and the post is hidden.
C26_Witness ==
    /\ last.op = "PostSoftDelete"
    /\ last.err = ERR_NIL
    /\ last.id \in DOMAIN table
    /\ now > 0
    /\ table[last.id].soft_deleted_at = now
    /\ last.id \notin ListedIDs

\* C27, the part on calls that run one after another: no entity ever has
\* two adjacent snapshots of equal content.
C27_NoAdjacentDuplicates ==
    \A id \in DOMAIN table :
        LET s == SnapshotsOf(versions, id)
        IN  \A i \in 1..(Len(s) - 1) : s[i].content # s[i + 1].content

\* The step just taken is a post_upsert call.
Upsert ==
    calls' = calls + 1 /\ last'.op = "post_upsert"

\* A visible post is stored under the id: PostFindByID finds it.
Findable(id) ==
    TrimSpace(id) # "" /\ id \in DOMAIN table /\ Visible(table[id], now)

\* No id is given, or no post is stored under the id.
Absent(id) ==
    TrimSpace(id) = "" \/ id \notin DOMAIN table

\* C28: post_upsert with the id of a post PostFindByID finds updates that
\* post: no row is added or removed, no other row changes, and on success
\* the returned id is the given id and a given title is stored.  With no id
\* or an id no post is stored under, a successful call adds exactly one
\* row, under the given id if one was given, and the call succeeds when
\* nothing fails and the title is not blank; with a blank title it fails
\* and leaves the store as it is.
C28_UpsertUpdatesOrCreates ==
    [][Upsert =>
        LET a == last'.args
        IN  /\ \A x \in DOMAIN table \ {a.id} : x \in DOMAIN table' /\ table'[x] = table[x]
            /\ Findable(a.id) =>
                  /\ DOMAIN table' = DOMAIN table
                  /\ last'.err = ERR_NIL =>
                        /\ last'.returned = a.id
                        /\ a.title # "" => table'[a.id].title = a.title
            /\ (Absent(a.id) /\ last'.err = ERR_NIL) =>
                  /\ Cardinality(DOMAIN table') = Cardinality(DOMAIN table) + 1
                  /\ DOMAIN table' = DOMAIN table \cup {last'.returned}
                  /\ TrimSpace(a.id) # "" => last'.returned = a.id
                  /\ table'[last'.returned].title = a.title
            /\ (Absent(a.id) /\ TrimSpace(a.title) # "" /\ a.featured = "" /\ last'.fault = "none") =>
                  last'.err = ERR_NIL
            /\ (~Findable(a.id) /\ TrimSpace(a.title) = "") =>
                  /\ last'.err # ERR_NIL
                  /\ table' = table
                  /\ versions' = versions]_vars

\* post_upsert with the id p1 and a title has updated the stored post p1
\* next to the stored post p2.
C28_Witness ==
    /\ last.op = "post_upsert"
    /\ last.err = ERR_NIL
    /\ last.args.id = "p1"
    /\ last.returned = "p1"
    /\ DOMAIN table = {"p1", "p2"}
    /\ table["p1"].title = "a"
    /\ table["p1"].created_at = 0

\* PostSoftDeleteByID has just returned.
SoftDeleteByID ==
    calls' = calls + 1 /\ last'.op = "PostSoftDeleteByID"

\* C29: PostSoftDeleteByID of an id that has no visible post (none stored,
\* or a soft-deleted one) returns an error and leaves the post table and
\* the snapshots as they are; and a call that succeeds leaves the post
\* hidden at its own second and ever after, so the next call with the same
\* id is such a call.
C29_SoftDeleteByIDOfHidden ==
    [][SoftDeleteByID =>
        LET id == last'.id
        IN  /\ ~(id \in DOMAIN table /\ Visible(table[id], now)) =>
                  /\ last'.err # ERR_NIL
                  /\ table' = table
                  /\ versions' = versions
            /\ last'.err = ERR_NIL =>
                  /\ id \in DOMAIN table'
                  /\ \A t \in now' .. MaxTime : ~Visible(table'[id], t)
                  /\ \A r \in PostSoftDeleteByID(table', versions', now', id, "none") :
                        r.err = ERR_POST_NIL /\ r.table = table' /\ r.versions = versions']_vars

\* The second PostSoftDeleteByID of a post has just failed: the post was
\* soft-deleted at second 1, after the run began, and is still stored.
C29_Witness ==
    /\ last.op = "PostSoftDeleteByID"
    /\ last.err = ERR_POST_NIL
    /\ last.id \in DOMAIN table
    /\ table[last.id].soft_deleted_at = 1

\* C30: post_upsert with the id of a stored post that is soft-deleted
\* returns an error and leaves the post table, so the soft-deleted row and
\* its fields, and the snapshots as they are; the error is that of the
\* create path: the missing title, or the duplicate id of the INSERT when
\* the arguments are good and the backend does not fail.
C30_UpsertOfSoftDeleted ==
    [][Upsert =>
        LET a == last'.args
        IN  (TrimSpace(a.id) # "" /\ a.id \in DOMAIN table /\ ~Visible(table[a.id], now)) =>
                /\ last'.err # ERR_NIL
                /\ table' = table
                /\ versions' = versions
                /\ ~Visible(table'[a.id], now')
                /\ (last'.fault # "select" /\ TrimSpace(a.title) = "") =>
                      last'.err = ERR_TITLE_REQUIRED
                /\ (last'.fault = "none" /\ TrimSpace(a.title) # "" /\ a.featured = "") =>
                      last'.err = ERR_DUPLICATE]_vars

\* post_upsert has just failed on the duplicate id of a post that was
\* soft-deleted by the call before it; the row keeps its title.
C30_Witness ==
    /\ last.op = "post_upsert"
    /\ last.err = ERR_DUPLICATE
    /\ last.args.id \in DOMAIN table
    /\ last.args.title = "a"
    /\ table[last.args.id].title = "ab"
    /\ table[last.args.id].soft_deleted_at = 0
====
